---- MODULE Spec2Model ----
(***************************************************************************)
(* Lifecycle of the PagAnimation React component                           *)
(* (src/src/components/PagAnimation.tsx).                                  *)
(*                                                                         *)
(* One component instance runs a sequence of activations of its effect     *)
(* (lines 34-158): the first on mount, a further one each time a           *)
(* dependency (pagFile, width, height, autoPlay, loop) changes.  Every     *)
(* activation runs initPagAnimation, an async function whose awaits        *)
(* (PAGInit, fetch, arrayBuffer, PAGFile.load, PAGView.init, play) are     *)
(* the suspension points; its continuations interleave with the cleanup    *)
(* of the effect, with later activations, with the interval callback and   *)
(* with React's commits.  The engine (libpag) and fetch are external:      *)
(* each of their answers is a nondeterministic choice.                     *)
(***************************************************************************)
EXTENDS Integers, Sequences, FiniteSets, TLC

\* Number of activations of the effect that one component instance runs.
MaxAct == 2

Acts == 1..MaxAct

\* null, for pagViewRef.current, _loopIntervalId and "no activation"
Null == 0

\* error === null (useState<string | null>(null), line 32)
NoError == "<null>"

\* progress >= 0.99 (line 112), in hundredths
RestartThreshold == 99

\* Values getProgress() can return, in hundredths
ProgressLevels == {0, 50, 99, 100}

\* What a rejected promise or a throwing engine call carries: an Error with
\* a message, or a value that is not an Error.
Rejections == {[kind |-> "reject", isError |-> TRUE, message |-> "engine failure"],
               [kind |-> "reject", isError |-> FALSE, message |-> ""]}

\* A promise that resolves with nothing the code inspects
Resolved == [kind |-> "ok"]

\* What PAGFile.load and PAGView.init resolve with: a handle or null
Handles == {[kind |-> "handle"], [kind |-> "null"]}

\* What fetch resolves with: response.ok and response.statusText
Responses == {[kind |-> "response", ok |-> TRUE, statusText |-> "OK"],
              [kind |-> "response", ok |-> FALSE, statusText |-> "Not Found"],
              [kind |-> "response", ok |-> FALSE, statusText |-> "Internal Server Error"]}

VARIABLES
  mounted,     \* the component instance is mounted
  cur,         \* the latest activation of the effect (Null before the first)
  pc,          \* per activation: the await initPagAnimation is suspended at
  isMounted,   \* per activation: the closure's isMounted flag (line 35)
  autoPlay,    \* per activation: the autoPlay prop its closure captured
  loop,        \* per activation: the loop prop its closure captured
  isLoading,   \* useState(true), line 31
  error,       \* useState<string | null>(null), line 32
  canvasRef,   \* canvasRef.current is a canvas (TRUE) or null (FALSE)
  pagViewRef,  \* pagViewRef.current: Null or the view (named by its activation)
  view,        \* per activation: the PAGView its PAGView.init returned
  timers,      \* the interval ids still set (an id is its activation)
  fail,        \* per activation: the stage whose failure reached the catch
  hist,        \* per activation: what it has called and done so far
  last         \* the step just taken

vars == <<mounted, cur, pc, isMounted, autoPlay, loop, isLoading, error,
          canvasRef, pagViewRef, view, timers, fail, hist, last>>

----------------------------------------------------------------------------
\* Pure pieces of the component

\* err instanceof Error ? err.message : "Unknown error occurred" (line 133)
ErrMessageGeneric(err) == "Unknown error occurred"
ErrMessage(err) == IF err.isError THEN err.message ELSE "Unknown error occurred"

\* `Failed to load PAG file: ${response.statusText}` (line 60)
FetchErrorMessageNoStatus(statusText) == "Failed to load PAG file"
FetchErrorMessage(statusText) == "Failed to load PAG file: " \o statusText

\* if (!response.ok) throw ... (line 59)
FetchRejectsNever(response) == FALSE
FetchRejects(response) == ~response.ok

\* if (!pagFileInstance) throw / if (!pagView) throw (lines 66, 79): the
\* result is a handle or null
IsNullNever(result) == FALSE
IsNull(result) == result.kind = "null"

\* The externally observable status: the error branch is rendered when error
\* is set (line 179), else the loading indicator while isLoading (line 192),
\* else the canvas alone.
PState ==
  IF error # NoError THEN "Error" ELSE IF isLoading THEN "Loading" ELSE "Ready"

\* React ignores a state update of an unmounted component.
SetState(old, new) == IF mounted THEN new ELSE old

\* The step just taken: the operation, the activation whose code ran, the
\* engine calls it made (in order), the progress it polled (NoPoll if
\* none), whether a call threw into a catch that swallows it, whether a
\* rejected promise escaped unhandled, and what the catch block of lines
\* 129-137 received when play() rejected.
NoCalls == <<>>
NoPoll == -1

Step(op, a) ==
  [op |-> op, act |-> a, calls |-> NoCalls, polled |-> NoPoll,
   threw |-> FALSE, escaped |-> FALSE, caught |-> Resolved]

FreshView ==
  [bound |-> FALSE, destroyed |-> FALSE, playing |-> FALSE, progress |-> 0,
   repeatCount |-> 0, loopIntervalId |-> Null]

NoHist ==
  [calledFetch |-> FALSE, calledDecode |-> FALSE, calledBind |-> FALSE,
   calledPlay |-> FALSE, installed |-> FALSE, repeatThrew |-> FALSE,
   armed |-> FALSE, reportedReady |-> FALSE, staleAbort |-> FALSE,
   statusText |-> ""]

Init ==
  /\ mounted = TRUE
  /\ cur = Null
  /\ pc = [a \in Acts |-> "idle"]
  /\ isMounted = [a \in Acts |-> FALSE]
  /\ autoPlay = [a \in Acts |-> TRUE]
  /\ loop = [a \in Acts |-> TRUE]
  /\ isLoading = TRUE
  /\ error = NoError
  /\ canvasRef = TRUE
  /\ pagViewRef = Null
  /\ view = [a \in Acts |-> FreshView]
  /\ timers = {}
  /\ fail = [a \in Acts |-> "none"]
  /\ hist = [a \in Acts |-> NoHist]
  /\ last = Step("init", Null)


----------------------------------------------------------------------------
\* The cleanup function of the effect (lines 142-157), as the values it
\* leaves.  destroyThrows: whether pagViewRef.current.destroy() throws.

\* if (intervalId) clearInterval(intervalId) (lines 147-150)
TimersAfterCleanupKeep == timers
TimersAfterCleanup ==
  IF pagViewRef # Null /\ view[pagViewRef].loopIntervalId # Null
  THEN timers \ {view[pagViewRef].loopIntervalId}
  ELSE timers

\* pagViewRef.current.destroy() inside try/catch (lines 151-154); destroyed
\* records that destroy() was called on the view, whether or not it threw
ViewAfterCleanup ==
  IF pagViewRef # Null
  THEN [view EXCEPT ![pagViewRef].destroyed = TRUE, ![pagViewRef].playing = FALSE]
  ELSE view

\* The cleanup as a step: its calls in program order, clearInterval of the
\* view's _loopIntervalId (line 149) and then destroy() (line 151); a throw
\* of destroy() is caught and logged (line 153)
CleanupStep(op, a, destroyThrows) ==
  [Step(op, a) EXCEPT
     !.calls = IF pagViewRef = Null THEN <<>>
               ELSE (IF view[pagViewRef].loopIntervalId # Null
                     THEN <<<<"clearInterval", view[pagViewRef].loopIntervalId>>>>
                     ELSE <<>>)
                    \o <<<<"destroy", pagViewRef>>>>,
     !.threw = (pagViewRef # Null /\ destroyThrows)]

\* pagViewRef.current = null (line 155)
RefAfterCleanupKept == pagViewRef
RefAfterCleanup == Null

\* isMounted = false (line 143): only the closure of the activation that is
\* cleaned up has its flag cleared
IsMountedAfterCleanup ==
  IF cur # Null THEN [isMounted EXCEPT ![cur] = FALSE] ELSE isMounted

\* The catch block (lines 129-137): the error is reported only if (isMounted)
CatchReportsAlways(a) == TRUE
CatchReports(a) == isMounted[a]

\* The stage fails: control reaches the catch block with a message.
Catch(a, stage, msg) ==
  /\ pc' = [pc EXCEPT ![a] = "done"]
  /\ fail' = [fail EXCEPT ![a] = stage]
  /\ error' = IF CatchReports(a) THEN SetState(error, msg) ELSE error
  /\ isLoading' = IF CatchReports(a) THEN SetState(isLoading, FALSE) ELSE isLoading

----------------------------------------------------------------------------
\* The effect runs (lines 34-140): on mount, and again after a render in
\* which a dependency changed (line 158).  React commits the render (the
\* canvas is in the committed tree exactly when the error branch of line 179
\* was not taken), runs the previous activation's cleanup, then the effect
\* body: initPagAnimation up to its first await (lines 38-47).
Activate(ap, lp, destroyThrows) ==
  /\ mounted
  /\ cur < MaxAct
  /\ LET a == cur + 1
         canvas == (error = NoError)
     IN /\ cur' = a
        /\ canvasRef' = canvas
        /\ autoPlay' = [autoPlay EXCEPT ![a] = ap]
        /\ loop' = [loop EXCEPT ![a] = lp]
        /\ isMounted' = [IsMountedAfterCleanup EXCEPT ![a] = TRUE]
        /\ timers' = TimersAfterCleanup
        /\ view' = ViewAfterCleanup
        /\ pagViewRef' = RefAfterCleanup
        /\ IF canvas
           THEN /\ pc' = [pc EXCEPT ![a] = "bootstrap"]
                /\ isLoading' = TRUE
                /\ error' = NoError
                /\ fail' = fail
           ELSE \* throw new Error("Canvas element not found") (line 43)
                /\ pc' = [pc EXCEPT ![a] = "done"]
                /\ isLoading' = FALSE
                /\ error' = "Canvas element not found"
                /\ fail' = [fail EXCEPT ![a] = "canvas"]
        /\ last' = CleanupStep("activate", a, destroyThrows)
        /\ UNCHANGED <<mounted, hist>>

\* The component unmounts: the canvas ref is detached, then the cleanup of
\* the latest activation runs (lines 142-157).
Unmount(destroyThrows) ==
  /\ mounted
  /\ cur # Null
  /\ mounted' = FALSE
  /\ canvasRef' = FALSE
  /\ isMounted' = IsMountedAfterCleanup
  /\ timers' = TimersAfterCleanup
  /\ view' = ViewAfterCleanup
  /\ pagViewRef' = RefAfterCleanup
  /\ last' = CleanupStep("unmount", cur, destroyThrows)
  /\ UNCHANGED <<cur, pc, autoPlay, loop, isLoading, error, fail, hist>>

\* The cleanup function of activation a (lines 142-157) invoked once more
\* after it already ran: the same closure, whatever pagViewRef.current holds
\* by then.  React itself calls a cleanup once; the second call is a
\* caller's.
CleanupAgain(a, destroyThrows) ==
  /\ pc[a] # "idle"
  /\ ~isMounted[a]
  /\ isMounted' = [isMounted EXCEPT ![a] = FALSE]
  /\ timers' = TimersAfterCleanup
  /\ view' = ViewAfterCleanup
  /\ pagViewRef' = RefAfterCleanup
  /\ last' = CleanupStep("cleanupAgain", a, destroyThrows)
  /\ UNCHANGED <<mounted, cur, pc, autoPlay, loop, isLoading, error, canvasRef,
                 fail, hist>>

\* React re-renders after a state change: the error branch (line 179)
\* removes the canvas from the tree, the other branch (line 206) has it.
Render ==
  /\ mounted
  /\ canvasRef # (error = NoError)
  /\ canvasRef' = (error = NoError)
  /\ last' = Step("render", Null)
  /\ UNCHANGED <<mounted, cur, pc, isMounted, autoPlay, loop, isLoading, error,
                 pagViewRef, view, timers, fail, hist>>

----------------------------------------------------------------------------
\* The continuations of initPagAnimation, one per await.

\* await PAGInit(...) settles (line 47); on success fetch is called (line 58)
BootstrapDone(a) ==
  /\ pc[a] = "bootstrap"
  /\ \E r \in {Resolved} \cup Rejections :
       IF r.kind = "ok"
       THEN /\ pc' = [pc EXCEPT ![a] = "fetch"]
            /\ hist' = [hist EXCEPT ![a].calledFetch = TRUE]
            /\ UNCHANGED <<fail, error, isLoading>>
       ELSE /\ Catch(a, "bootstrap", ErrMessage(r))
            /\ hist' = hist
  /\ last' = Step("bootstrap", a)
  /\ UNCHANGED <<mounted, cur, isMounted, autoPlay, loop, canvasRef, pagViewRef,
                 view, timers>>

\* await fetch(pagFile) settles (lines 58-62); on an ok response
\* response.arrayBuffer() is called
FetchDone(a) ==
  /\ pc[a] = "fetch"
  /\ \E r \in Responses \cup Rejections :
       IF r.kind = "reject"
       THEN /\ Catch(a, "fetchNetwork", ErrMessage(r))
            /\ hist' = hist
       ELSE IF FetchRejects(r)
       THEN /\ Catch(a, "fetchStatus", FetchErrorMessage(r.statusText))
            /\ hist' = [hist EXCEPT ![a].statusText = r.statusText]
       ELSE /\ pc' = [pc EXCEPT ![a] = "buffer"]
            /\ hist' = [hist EXCEPT ![a].statusText = r.statusText]
            /\ UNCHANGED <<fail, error, isLoading>>
  /\ last' = Step("fetch", a)
  /\ UNCHANGED <<mounted, cur, isMounted, autoPlay, loop, canvasRef, pagViewRef,
                 view, timers>>

\* await response.arrayBuffer() settles (line 62); on success
\* PAG.PAGFile.load(buffer) is called (line 65)
BufferDone(a) ==
  /\ pc[a] = "buffer"
  /\ \E r \in {Resolved} \cup Rejections :
       IF r.kind = "ok"
       THEN /\ pc' = [pc EXCEPT ![a] = "decode"]
            /\ hist' = [hist EXCEPT ![a].calledDecode = TRUE]
            /\ UNCHANGED <<fail, error, isLoading>>
       ELSE /\ Catch(a, "buffer", ErrMessage(r))
            /\ hist' = hist
  /\ last' = Step("buffer", a)
  /\ UNCHANGED <<mounted, cur, isMounted, autoPlay, loop, canvasRef, pagViewRef,
                 view, timers>>

\* if (!isMounted) return (line 70)
AbortsAfterDecodeNever(a) == FALSE
AbortsAfterDecode(a) == ~isMounted[a]

\* await PAG.PAGFile.load(buffer) settles (lines 65-78): null check, the
\* isMounted check, the canvas is sized, PAG.PAGView.init is called
DecodeDone(a) ==
  /\ pc[a] = "decode"
  /\ \E r \in Handles \cup Rejections :
       IF r.kind = "reject"
       THEN /\ Catch(a, "decode", ErrMessage(r))
            /\ hist' = hist
       ELSE IF IsNull(r)
       THEN /\ Catch(a, "decodeNull", "Failed to load PAG file")
            /\ hist' = hist
       ELSE IF AbortsAfterDecode(a)
       THEN /\ pc' = [pc EXCEPT ![a] = "done"]
            /\ hist' = [hist EXCEPT ![a].staleAbort = TRUE]
            /\ UNCHANGED <<fail, error, isLoading>>
       ELSE IF ~canvasRef
       THEN \* canvas.width = width on null (line 74): a TypeError
            /\ Catch(a, "canvasNull", "Cannot set properties of null")
            /\ hist' = hist
       ELSE /\ pc' = [pc EXCEPT ![a] = "bind"]
            /\ hist' = [hist EXCEPT ![a].calledBind = TRUE]
            /\ UNCHANGED <<fail, error, isLoading>>
  /\ last' = Step("decode", a)
  /\ UNCHANGED <<mounted, cur, isMounted, autoPlay, loop, canvasRef, pagViewRef,
                 view, timers>>


\* setRepeatCount(-1) is called inside its own try/catch (lines 88-94): a
\* throw is logged and initialization goes on
RepeatFailureAbortsWhenThrown(a, threw) == threw
RepeatFailureAborts(a, threw) == FALSE

\* if (autoPlay) (line 98)
StartsPlaybackAlways(a) == TRUE
StartsPlayback(a) == autoPlay[a]

\* pagViewRef.current = pagView (line 83)
SessionRefKept(a) == pagViewRef
SessionRef(a) == a

\* What the continuation after PAGView.init does to a view it got, in
\* program order (lines 83-128)
BindCalls(a) ==
  <<<<"setRef", a>>>>
  \o (IF loop[a] THEN <<<<"setRepeatCount", a>>>> ELSE <<>>)
  \o (IF StartsPlayback(a) THEN <<<<"play", a>>>> ELSE <<<<"setIsLoading", a>>>>)

\* await PAG.PAGView.init(pagFileInstance, canvas) settles (lines 78-99, and
\* line 128 when autoPlay is off): null check, pagViewRef.current = pagView,
\* setRepeatCount(-1) if loop, play() if autoPlay
BindDone(a) ==
  /\ pc[a] = "bind"
  /\ \E r \in Handles \cup Rejections, repeatThrows \in BOOLEAN :
       IF r.kind = "reject"
       THEN /\ Catch(a, "bind", ErrMessage(r))
            /\ last' = Step("bind", a)
            /\ UNCHANGED <<hist, pagViewRef, view>>
       ELSE IF IsNull(r)
       THEN /\ Catch(a, "bindNull", "Failed to create PAG view")
            /\ last' = Step("bind", a)
            /\ UNCHANGED <<hist, pagViewRef, view>>
       ELSE LET threw == loop[a] /\ repeatThrows
                h == [hist[a] EXCEPT !.installed = TRUE, !.repeatThrew = threw]
            IN /\ pagViewRef' = SessionRef(a)
               /\ last' = [Step("bind", a) EXCEPT
                             !.calls = IF RepeatFailureAborts(a, threw)
                                       THEN SubSeq(BindCalls(a), 1, 2)
                                       ELSE BindCalls(a)]
               /\ view' = [view EXCEPT ![a].bound = (r.kind = "handle"),
                                       ![a].repeatCount =
                                          IF loop[a] /\ ~threw THEN -1 ELSE 0]
               /\ IF RepeatFailureAborts(a, threw)
                  THEN /\ Catch(a, "repeat", "setRepeatCount is not a function")
                       /\ hist' = [hist EXCEPT ![a] = h]
                  ELSE IF StartsPlayback(a)
                  THEN /\ pc' = [pc EXCEPT ![a] = "play"]
                       /\ hist' = [hist EXCEPT ![a] = [h EXCEPT !.calledPlay = TRUE]]
                       /\ UNCHANGED <<fail, error, isLoading>>
                  ELSE /\ pc' = [pc EXCEPT ![a] = "done"]
                       /\ isLoading' = SetState(isLoading, FALSE)
                       /\ hist' = [hist EXCEPT ![a] = [h EXCEPT !.reportedReady = TRUE]]
                       /\ UNCHANGED <<fail, error>>
  /\ UNCHANGED <<mounted, cur, isMounted, autoPlay, loop, canvasRef, timers>>

\* if (loop) { const canvas = canvasRef.current; if (canvas) setInterval(...) }
\* (lines 102-106), inside the autoPlay branch
ArmsWatchdogWithoutLoop(a) == canvasRef
ArmsWatchdog(a) == loop[a] /\ canvasRef

\* await pagView.play() settles (lines 99-128): the interval is set and its
\* id stored on the view, then setIsLoading(false)
PlayDone(a) ==
  /\ pc[a] = "play"
  /\ \E r \in {Resolved} \cup Rejections :
       IF r.kind = "reject"
       THEN /\ Catch(a, "play", ErrMessage(r))
            /\ last' = [Step("play", a) EXCEPT !.caught = r]
            /\ UNCHANGED <<hist, view, timers>>
       ELSE /\ pc' = [pc EXCEPT ![a] = "done"]
            /\ isLoading' = SetState(isLoading, FALSE)
            /\ timers' = IF ArmsWatchdog(a) THEN timers \cup {a} ELSE timers
            /\ view' = [view EXCEPT
                 ![a].playing = ~view[a].destroyed,
                 ![a].loopIntervalId = IF ArmsWatchdog(a) THEN a ELSE @]
            /\ hist' = [hist EXCEPT ![a].reportedReady = TRUE,
                                    ![a].armed = ArmsWatchdog(a)]
            /\ last' = [Step("play", a) EXCEPT
                          !.calls = (IF ArmsWatchdog(a)
                                     THEN <<<<"setInterval", a>>>> ELSE <<>>)
                                    \o <<<<"setIsLoading", a>>>>]
            /\ UNCHANGED <<fail, error>>
  /\ UNCHANGED <<mounted, cur, isMounted, autoPlay, loop, canvasRef, pagViewRef>>

----------------------------------------------------------------------------
\* The interval callback (lines 106-120) of the timer that activation t set.

\* if (pagViewRef.current && isMounted) (line 107)
TickGuardIgnoresMounted(t) == pagViewRef # Null
TickGuard(t) == pagViewRef # Null /\ isMounted[t]

\* getProgress?.() || 0 (lines 109-110): the method is absent, throws, or
\* returns the view's progress
ProgressReads == {"absent", "throws", "value"}
PolledProgress(g, v) == IF g = "value" THEN view[v].progress ELSE 0

\* if (progress >= 0.99) (line 112)
NeedsRestartStrict(progress) == progress > RestartThreshold
NeedsRestart(progress) == progress >= RestartThreshold

\* What setProgress(0) and the unawaited play() of lines 113-114 can do
CallOutcomes == {"ok", "throws"}
PlayOutcomes == {"ok", "throws", "rejects"}

\* catch (e) { /* ignore */ } (lines 117-119): the tick reports nothing
ErrorAfterTickReported(threw) == IF threw THEN "Playback error" ELSE error
ErrorAfterTick(threw) == error

Tick(t) ==
  /\ t \in timers
  /\ IF ~TickGuard(t)
     THEN /\ last' = Step("tick", t)
          /\ view' = view
          /\ error' = error
     ELSE \E g \in ProgressReads, sp \in CallOutcomes, pl \in PlayOutcomes :
       LET v == pagViewRef
           read == IF g = "absent" THEN <<>> ELSE <<<<"getProgress", v>>>>
           restart == g # "throws" /\ NeedsRestart(PolledProgress(g, v))
           reset == restart /\ sp = "ok"
           threw == (g = "throws" \/ (restart /\ sp = "throws")
                     \/ (reset /\ pl = "throws"))
           calls == read
                    \o (IF restart THEN <<<<"setProgress", v>>>> ELSE <<>>)
                    \o (IF reset THEN <<<<"play", v>>>> ELSE <<>>)
       IN /\ view' = [view EXCEPT
                 ![v].progress = IF reset THEN 0 ELSE @,
                 ![v].playing = IF reset /\ pl = "ok" THEN ~view[v].destroyed ELSE @]
          /\ last' = [op |-> "tick", act |-> t, calls |-> calls,
                      polled |-> IF g = "throws" THEN NoPoll ELSE PolledProgress(g, v),
                      threw |-> threw,
                      escaped |-> (reset /\ pl = "rejects"),
                      caught |-> Resolved]
          /\ error' = ErrorAfterTick(threw)
  /\ UNCHANGED <<mounted, cur, pc, isMounted, autoPlay, loop, isLoading,
                 canvasRef, pagViewRef, timers, fail, hist>>

----------------------------------------------------------------------------
\* The engine behind a bound view (interface PAGView, lines 4-10): while it
\* plays its progress advances; at the end it repeats if the repeat count
\* was set and the engine honours it, or it stops.

NextLevel(p) == CHOOSE q \in ProgressLevels :
                  q > p /\ \A r \in ProgressLevels : r > p => q <= r

EngineAdvance(v) ==
  /\ view[v].bound /\ view[v].playing /\ ~view[v].destroyed
  /\ view[v].progress < 100
  /\ view' = [view EXCEPT ![v].progress = NextLevel(@)]
  /\ last' = Step("engine", v)
  /\ UNCHANGED <<mounted, cur, pc, isMounted, autoPlay, loop, isLoading, error,
                 canvasRef, pagViewRef, timers, fail, hist>>

EngineRepeat(v) ==
  /\ view[v].bound /\ view[v].playing /\ ~view[v].destroyed
  /\ view[v].progress = 100
  /\ view[v].repeatCount = -1
  /\ view' = [view EXCEPT ![v].progress = 0]
  /\ last' = Step("engine", v)
  /\ UNCHANGED <<mounted, cur, pc, isMounted, autoPlay, loop, isLoading, error,
                 canvasRef, pagViewRef, timers, fail, hist>>

EngineStop(v) ==
  /\ view[v].bound /\ view[v].playing /\ ~view[v].destroyed
  /\ view[v].progress = 100
  /\ view' = [view EXCEPT ![v].playing = FALSE]
  /\ last' = Step("engine", v)
  /\ UNCHANGED <<mounted, cur, pc, isMounted, autoPlay, loop, isLoading, error,
                 canvasRef, pagViewRef, timers, fail, hist>>

----------------------------------------------------------------------------
Next ==
  \/ \E ap \in BOOLEAN, lp \in BOOLEAN, d \in BOOLEAN : Activate(ap, lp, d)
  \/ \E d \in BOOLEAN : Unmount(d)
  \/ Render
  \/ \E a \in Acts : BootstrapDone(a)
  \/ \E a \in Acts : FetchDone(a)
  \/ \E a \in Acts : BufferDone(a)
  \/ \E a \in Acts : DecodeDone(a)
  \/ \E a \in Acts : BindDone(a)
  \/ \E a \in Acts : PlayDone(a)
  \/ \E t \in Acts : Tick(t)
  \/ \E v \in Acts : EngineAdvance(v)
  \/ \E v \in Acts : EngineRepeat(v)
  \/ \E v \in Acts : EngineStop(v)

Spec == Init /\ [][Next]_vars

\* The component with a caller that may invoke a cleanup a second time
NextTwice ==
  \/ Next
  \/ \E a \in Acts, d \in BOOLEAN : CleanupAgain(a, d)

SpecTwice == Init /\ [][NextTwice]_vars

----------------------------------------------------------------------------
\* Vocabulary of the properties

\* The steps that run a continuation of initPagAnimation
ContinuationOps == {"bootstrap", "fetch", "buffer", "decode", "bind", "play"}

\* Activation a is still valid and its initPagAnimation ran to its last
\* line (setIsLoading(false), line 128)
Succeeded(a) == isMounted[a] /\ pc[a] = "done" /\ fail[a] = "none"

\* C1: within one activation Presentation State reaches exactly one of Ready
\* and Error, never both: while the activation stays the current one, a
\* Presentation State that is Ready does not turn into Error.
C1_NeverReadyThenError ==
  [][(mounted' /\ cur' = cur /\ PState = "Ready") => PState' # "Error"]_vars

\* C2: a continuation that runs after its activation's Validity Token was
\* invalidated installs no Session, leaves Presentation State as it is and
\* arms no timer.
C2_StaleContinuationInert ==
  [][(last'.op \in ContinuationOps /\ ~isMounted[last'.act])
       => (pagViewRef' = pagViewRef /\ PState' = PState /\ timers' = timers)]_vars

\* C3: at every moment at most one watchdog timer is active for the
\* component.
C3_AtMostOneTimer == Cardinality(timers) <= 1

\* C4: once an activation was torn down and its initPagAnimation has run to
\* completion, the Session reference does not hold its handle, the handle it
\* bound (if any) has been destroyed, and its timer (if any) is not active.
C4_TornDownReleased ==
  \A a \in Acts :
    (pc[a] = "done" /\ ~isMounted[a])
      => /\ pagViewRef # a
         /\ (view[a].bound => view[a].destroyed)
         /\ a \notin timers

\* C5: an activation whose fetch response has a non-success status never
\* invokes decode or bind and installs no Session, and while it is valid
\* Presentation State is Error with "Failed to load PAG file: <statusText>".
C5_FetchStatusError ==
  \A a \in Acts :
    fail[a] = "fetchStatus"
      => /\ ~hist[a].calledDecode /\ ~hist[a].calledBind
         /\ ~hist[a].installed /\ ~view[a].bound /\ pagViewRef # a
         /\ hist[a].statusText \in {"Not Found", "Internal Server Error"}
         /\ isMounted[a] =>
              /\ PState = "Error"
              /\ error = "Failed to load PAG file: " \o hist[a].statusText

C5_Witness ==
  \E a \in Acts :
    /\ fail[a] = "fetchStatus" /\ isMounted[a]
    /\ last = Step("fetch", a)
    /\ error = "Failed to load PAG file: Not Found"

\* C6: an activation whose bootstrap fails, or whose decode or bind returns
\* null or fails, installs no Session and, while it is valid, Presentation
\* State is Error; the Session reference only ever holds a non-null handle
\* that a bind returned.
C6_NoPartialSession ==
  /\ \A a \in Acts :
       fail[a] \in {"bootstrap", "decode", "decodeNull", "bind", "bindNull"}
         => /\ ~hist[a].installed /\ pagViewRef # a
            /\ isMounted[a] => PState = "Error"
  /\ \A a \in Acts : hist[a].installed => (hist[a].calledBind /\ view[a].bound)
  /\ pagViewRef # Null => (hist[pagViewRef].installed /\ view[pagViewRef].bound)

C6_Witness ==
  \E a \in Acts :
    /\ fail[a] = "bindNull" /\ isMounted[a]
    /\ last = Step("bind", a)
    /\ error = "Failed to create PAG view" /\ pagViewRef = Null


\* C7 (as claimed): in every state a watchdog timer is active if and only
\* if a Session is installed and loop was requested.
C7_TimerIffSessionAndLoop ==
  (timers # {}) <=> (pagViewRef # Null /\ cur # Null /\ loop[cur])

\* C7 (amended): once a still-valid activation has run its initialization to
\* the end without failure, its watchdog timer is active if and only if it
\* requested both autoplay and loop; and every timer was armed by an
\* activation that requested both and had installed its handle.
C7_TimerIffAutoplayAndLoop ==
  /\ \A a \in Acts :
       Succeeded(a) => ((a \in timers) <=> (autoPlay[a] /\ loop[a]))
  /\ \A t \in timers :
       autoPlay[t] /\ loop[t] /\ hist[t].installed /\ hist[t].armed

C7_Witness ==
  \E a \in Acts :
    /\ Succeeded(a) /\ last.op = "bind" /\ last.act = a
    /\ loop[a] /\ ~autoPlay[a]
    /\ pagViewRef = a /\ a \notin timers

\* C8 (as claimed): while the latest activation is valid, Presentation State
\* is Error if and only if a stage of it failed before it installed a
\* Session.
C8_ErrorIffFailedBeforeSession ==
  \A a \in Acts :
    isMounted[a]
      => ((error # NoError) <=> (fail[a] # "none" /\ ~hist[a].installed))

\* C8 (amended): while the latest activation is valid, Presentation State is
\* Error if and only if a stage of it failed; Error coexists with a Session
\* that initialization installed exactly when the failing stage was play().
C8_ErrorIffFailed ==
  \A a \in Acts :
    isMounted[a]
      => /\ (error # NoError) <=> (fail[a] # "none")
         /\ (error # NoError /\ hist[a].installed) <=> (fail[a] = "play")
         /\ fail[a] = "play" => pagViewRef # Null

C8_Witness ==
  \E a \in Acts :
    /\ isMounted[a] /\ last.op = "play" /\ last.act = a
    /\ fail[a] = "play" /\ PState = "Error" /\ pagViewRef = a

\* C9: when loop and autoplay are requested and setRepeatCount throws, the
\* initialization goes on: play() is called, and if it resolves while the
\* activation is valid Presentation State is Ready and the watchdog is
\* armed; a tick of that watchdog that polls progress >= 0.99 calls
\* setProgress(0) and then play() on the handle it polled, which restarts it
\* unless one of the two calls fails.
C9_RepeatFailureNotFatal ==
  \A a \in Acts :
    (hist[a].repeatThrew /\ autoPlay[a])
      => /\ loop[a] /\ hist[a].calledPlay /\ fail[a] \in {"none", "play"}
         /\ Succeeded(a) => (PState = "Ready" /\ a \in timers)
         /\ (last.op = "tick" /\ last.act = a /\ last.polled >= 99)
              => /\ Len(last.calls) >= 2
                 /\ last.calls[1] = <<"getProgress", pagViewRef>>
                 /\ last.calls[2] = <<"setProgress", pagViewRef>>
                 /\ Len(last.calls) = 3 => last.calls[3] = <<"play", pagViewRef>>
                 /\ (~last.threw /\ ~last.escaped)
                      => /\ Len(last.calls) = 3
                         /\ view[pagViewRef].progress = 0
                         /\ view[pagViewRef].playing

C9_Witness ==
  \E a \in Acts :
    /\ hist[a].repeatThrew /\ autoPlay[a] /\ Succeeded(a)
    /\ last.op = "tick" /\ last.act = a /\ last.polled >= 99
    /\ ~last.threw /\ ~last.escaped
    /\ pagViewRef = a /\ view[a].progress = 0 /\ view[a].playing

\* C10: at the step at which a valid activation all of whose steps
\* succeeded finishes, Presentation State is Ready with the handle it bound
\* installed as the Session, its watchdog is armed exactly when it
\* requested autoplay and loop, and play() was never invoked when autoplay
\* was off (Ready is then reported by the bind continuation itself).
C10_SuccessfulActivation ==
  \A a \in Acts :
    (Succeeded(a) /\ last.act = a /\ last.op \in ContinuationOps)
      => /\ PState = "Ready"
         /\ last.op = (IF autoPlay[a] THEN "play" ELSE "bind")
         /\ pagViewRef = a
         /\ (a \in timers) <=> (autoPlay[a] /\ loop[a])
         /\ ~autoPlay[a] => ~hist[a].calledPlay


\* The activation whose cleanup a cleanup step ran (an activation step runs
\* the cleanup of the activation before it)
Cleaned(step) ==
  IF step.op = "activate" THEN step.act - 1
  ELSE IF step.op \in {"unmount", "cleanupAgain"} THEN step.act
  ELSE Null

\* C11: a second invocation of an activation's cleanup lets no error escape,
\* calls destroy() on no handle that destroy() was already called on, and,
\* coming right after the first invocation, changes nothing.
C11_TeardownIdempotent ==
  [][last'.op = "cleanupAgain"
       => /\ ~last'.escaped
          /\ \A v \in Acts :
               (<<"destroy", v>> \in {last'.calls[i] : i \in 1..Len(last'.calls)})
                 => ~view[v].destroyed
          /\ Cleaned(last) = last'.act
               => /\ last'.calls = <<>>
                  /\ UNCHANGED <<mounted, cur, pc, isMounted, autoPlay, loop,
                                 isLoading, error, canvasRef, pagViewRef, view,
                                 timers, fail, hist>>]_vars

C11_Witness ==
  \E a \in Acts :
    /\ last.op = "cleanupAgain" /\ last.act = a /\ last.calls = <<>>
    /\ view[a].destroyed /\ pagViewRef = Null /\ a \notin timers
    /\ hist[a].armed

\* The engine calls of a step that change the engine (getProgress only reads)
Mutations(step) ==
  LET muts == SelectSeq(step.calls, LAMBDA c : c[1] # "getProgress")
  IN [i \in 1..Len(muts) |-> muts[i][1]]

\* C12: a tick of a valid activation with a Session installed polls the
\* progress (0 when it cannot be read); at 0.99 or more it calls
\* setProgress(0) and then play(), stopping only if setProgress throws; below
\* 0.99, or when the poll throws, it calls nothing that changes the engine.
C12_TickRestartsAtEnd ==
  [][(last'.op = "tick" /\ isMounted[last'.act] /\ pagViewRef # Null)
       => /\ last'.polled \in {NoPoll, 0, view[pagViewRef].progress}
          /\ last'.polled = NoPoll => last'.threw
          /\ last'.polled >= 99
               => \/ Mutations(last') = <<"setProgress", "play">>
                  \/ Mutations(last') = <<"setProgress">> /\ last'.threw
          /\ last'.polled < 99
               => Mutations(last') = <<>> /\ view' = view]_vars

C12_Witness ==
  /\ last.op = "tick" /\ isMounted[last.act] /\ pagViewRef = last.act
  /\ last.polled = 99 /\ ~last.threw /\ ~last.escaped
  /\ last.calls = <<<<"getProgress", last.act>>, <<"setProgress", last.act>>,
                    <<"play", last.act>>>>
  /\ view[last.act].progress = 0 /\ view[last.act].playing

\* C13: the cleanup of an activation invalidates its token; if a Session is
\* installed it then cancels the Session's timer, calls destroy() and clears
\* the Session reference, in that order; when destroy() throws nothing
\* escapes, the timer is cancelled and the reference is cleared all the same.
C13_TeardownOrder ==
  [][(last'.op \in {"activate", "unmount"} /\ Cleaned(last') # Null)
       => /\ ~isMounted'[Cleaned(last')]
          /\ ~last'.escaped
          /\ pagViewRef' = Null
          /\ pagViewRef # Null
               => LET id == view[pagViewRef].loopIntervalId
                  IN /\ id \notin timers'
                     /\ view'[pagViewRef].destroyed
                     /\ last'.calls =
                          IF id # Null
                          THEN <<<<"clearInterval", id>>, <<"destroy", pagViewRef>>>>
                          ELSE <<<<"destroy", pagViewRef>>>>
          /\ pagViewRef = Null
               => last'.calls = <<>> /\ timers' = timers /\ view' = view]_vars

C13_Witness ==
  \E a \in Acts :
    /\ last.op \in {"activate", "unmount"} /\ Cleaned(last) = a
    /\ last.calls = <<<<"clearInterval", a>>, <<"destroy", a>>>>
    /\ last.threw /\ ~last.escaped
    /\ ~isMounted[a] /\ a \notin timers /\ pagViewRef = Null

\* In a step's calls every x comes before every y
Before(step, x, y) ==
  \A i, j \in 1..Len(step.calls) :
    (step.calls[i][1] = x /\ step.calls[j][1] = y) => i < j

\* C14: within an activation the Session is installed before setRepeatCount
\* and play are called, before the watchdog is armed and before Ready is
\* reported; and an activation is torn down before the one superseding it
\* starts its initializer.
C14_Ordering ==
  \A a \in Acts :
    /\ (last.op = "bind" /\ last.act = a /\ fail[a] = "none")
         => /\ pagViewRef = a
            /\ last.calls[1] = <<"setRef", a>>
            /\ Before(last, "setRef", "setRepeatCount")
            /\ Before(last, "setRef", "play")
            /\ Before(last, "setRepeatCount", "play")
            /\ Before(last, "setRef", "setIsLoading")
    /\ (last.op = "play" /\ last.act = a)
         => /\ hist[a].installed /\ hist[a].calledPlay
            /\ Before(last, "setInterval", "setIsLoading")
    /\ view[a].repeatCount = -1 => hist[a].installed
    /\ hist[a].calledPlay => hist[a].installed
    /\ hist[a].armed => hist[a].installed /\ hist[a].calledPlay
    /\ hist[a].reportedReady => hist[a].installed
    /\ a < cur => ~isMounted[a]
    /\ (last.op = "activate" /\ last.act = a) => pagViewRef = Null

C14_Witness ==
  /\ cur = 2 /\ ~isMounted[1] /\ isMounted[2]
  /\ last.op = "play" /\ last.act = 2
  /\ last.calls = <<<<"setInterval", 2>>, <<"setIsLoading", 2>>>>
  /\ hist[2].installed /\ hist[2].armed /\ hist[2].reportedReady
  /\ view[2].repeatCount = -1

\* C15: when play() rejects while the activation is valid, Presentation
\* State is Error with the rejection's message, or the generic message if
\* the rejection is not an Error; an activation whose play() failed never
\* reported Ready and never armed a watchdog.
C15_PlayFailure ==
  \A a \in Acts :
    /\ (last.op = "play" /\ last.act = a /\ last.caught.kind = "reject"
        /\ isMounted[a])
         => /\ autoPlay[a]
            /\ PState = "Error"
            /\ error = IF last.caught.isError THEN last.caught.message
                       ELSE "Unknown error occurred"
    /\ fail[a] = "play"
         => ~hist[a].reportedReady /\ ~hist[a].armed /\ a \notin timers

C15_Witness ==
  \E a \in Acts :
    /\ last.op = "play" /\ last.act = a /\ isMounted[a] /\ fail[a] = "play"
    /\ last.caught.kind = "reject" /\ last.caught.isError
    /\ error = "engine failure" /\ ~isLoading
    /\ loop[a] /\ a \notin timers

\* C16: when a step of the initializer (bootstrap, fetch, decode, bind,
\* play) fails after the activation's token was invalidated, Presentation
\* State is left as it was: error is not set and isLoading is not cleared.
C16_StaleFailureInert ==
  [][\A a \in Acts :
       (last'.op \in ContinuationOps /\ last'.act = a
        /\ fail[a] = "none" /\ fail'[a] # "none" /\ ~isMounted[a])
         => UNCHANGED <<isLoading, error>>]_vars

C16_Witness ==
  \E a \in Acts :
    /\ last.op = "play" /\ last.act = a /\ fail[a] = "play" /\ ~isMounted[a]
    /\ mounted /\ cur # a /\ PState = "Loading"

\* C17: whatever fails inside a watchdog tick (getProgress or setProgress
\* throwing, the restart play() throwing or rejecting), nothing escapes the
\* tick unhandled and the timer stays armed.
C17_TickContained ==
  last.op = "tick" => ~last.escaped /\ last.act \in timers

\* C18: every engine call of a watchdog tick is on the handle bound by the
\* activation that armed the timer, and that handle is not destroyed; the
\* tick of an invalidated activation makes no engine call.
C18_TickTargetsOwnHandle ==
  last.op = "tick"
    => /\ \A i \in 1..Len(last.calls) :
            /\ last.calls[i][2] = last.act
            /\ ~view[last.calls[i][2]].destroyed
       /\ ~isMounted[last.act] => last.calls = <<>>

\* C19: a watchdog tick changes neither Presentation State nor the Session
\* reference nor the set of timers, whatever it polls and whether or not
\* the restart succeeds; Presentation State changes only in a step of the
\* initializer (its start or one of its continuations).
C19_TickFrame ==
  [][/\ last'.op = "tick" => UNCHANGED <<isLoading, error, pagViewRef, timers>>
     /\ (isLoading' # isLoading \/ error' # error)
          => last'.op \in ContinuationOps \cup {"activate"}]_vars

C19_Witness ==
  /\ last.op = "tick" /\ last.threw /\ last.polled >= 99
  /\ last.calls # <<>> /\ PState = "Ready" /\ pagViewRef = last.act
  /\ timers = {last.act}

\* C20: whenever Presentation State is Ready, the Session reference holds
\* the handle bound by the current, still valid activation, that
\* activation's initializer has finished, and if it asked for autoplay its
\* play() has resolved.
C20_ReadyMeansInitialized ==
  (mounted /\ PState = "Ready")
    => /\ cur # Null /\ isMounted[cur]
       /\ pc[cur] = "done" /\ fail[cur] = "none"
       /\ pagViewRef = cur /\ view[cur].bound
       /\ autoPlay[cur] => hist[cur].calledPlay /\ hist[cur].reportedReady

====
